---- MODULE Spec2Model ----
(***************************************************************************)
(* The bridge client of server/connection.py (class ReaperConnection): one *)
(* TCP connection to the in-host listener, a request-id counter and an     *)
(* asyncio.Lock serialising the write+read exchange of request().          *)
(*                                                                         *)
(* Callers are asyncio tasks of one event loop.  A task runs without       *)
(* interruption from one await that really suspends to the next, so the    *)
(* model hands the loop to one task at a time (variable running) and       *)
(* releases it only where the code can suspend: open_connection, a         *)
(* contended lock, drain, readline and wait_closed.                        *)
(*                                                                         *)
(* Around the client: the module's singleton (get_connection) and the      *)
(* constructor's port, run_lua of server/tools/scripting.py, the script    *)
(* tracker of server/script_tracker.py and resolve_track_ref of            *)
(* server/helpers.py.  These are plain functions; each call is one step.   *)
(***************************************************************************)
EXTENDS Integers, Sequences, FiniteSets, TLC

\* ------------------------------------------------------------ bounds
\* concurrent callers, and calls made in one run (each call is one of
\* request, connect, disconnect)
NumTasks == 2
MaxCalls == 2
\* calls made in a run that follows the gate's queue
MaxGateCalls == 3

\* ------------------------------------------------- program constants
REQUEST_TIMEOUT == 10
PING_TIMEOUT == 2
\* execute: the script timeout assumed when none is given (ms), and the
\* buffer added to it (s)
DEFAULT_SCRIPT_MS == 120000
SOCKET_BUFFER == 30

Task == 1..NumTasks
SockId == 1..(IF MaxCalls > MaxGateCalls THEN MaxCalls ELSE MaxGateCalls)
None == 0

\* ------------------------------------------------ JSON values on the wire
\* The value of a response's "error" field.  t is the JSON type; s is the
\* string itself for a string and Python's str() of the value otherwise;
\* message is the mapping's "message" entry when has_message.
NoMessage == "<no message>"

ErrAbsent == [t |-> "absent", s |-> "", has_message |-> FALSE, message |-> NoMessage]
ErrNull == [t |-> "null", s |-> "None", has_message |-> FALSE, message |-> NoMessage]
ErrEmptyStr == [t |-> "str", s |-> "", has_message |-> FALSE, message |-> NoMessage]
ErrStrBoom == [t |-> "str", s |-> "boom", has_message |-> FALSE, message |-> NoMessage]
ErrNum == [t |-> "num", s |-> "5", has_message |-> FALSE, message |-> NoMessage]
ErrEmptyMap == [t |-> "map", s |-> "{}", has_message |-> FALSE, message |-> NoMessage]
ErrMapBoom == [t |-> "map", s |-> "{'message': 'boom'}", has_message |-> TRUE, message |-> "boom"]
ErrMapCode == [t |-> "map", s |-> "{'code': 3}", has_message |-> FALSE, message |-> NoMessage]

ErrorValues == {ErrAbsent, ErrNull, ErrEmptyStr, ErrStrBoom, ErrNum, ErrEmptyMap, ErrMapBoom, ErrMapCode}

\* Python truthiness of the error value (the second operand of line 107).
Truthy(e) ==
    CASE e.t = "absent" -> FALSE
      [] e.t = "null" -> FALSE
      [] e.t = "str" -> e.s # ""
      [] e.t = "num" -> e.s # "0"
      [] e.t = "map" -> e.s # "{}"

\* A response line as the listener sends it.  utf8: the bytes decode as
\* UTF-8; json: what json.loads makes of the text ("object", another JSON
\* type, or "invalid" for text that is not JSON); error and result are the
\* object's fields.
ObjLine(e, r) == [utf8 |-> TRUE, json |-> "object", error |-> e, result |-> r]
LinePong == ObjLine(ErrAbsent, "pong")
LineNullResult == ObjLine(ErrNull, "null")
LineNotJson == [utf8 |-> TRUE, json |-> "invalid", error |-> ErrAbsent, result |-> "null"]
LineArray == [utf8 |-> TRUE, json |-> "array", error |-> ErrAbsent, result |-> "null"]
LineNumber == [utf8 |-> TRUE, json |-> "number", error |-> ErrAbsent, result |-> "null"]
LineBadUtf8 == [utf8 |-> FALSE, json |-> "invalid", error |-> ErrAbsent, result |-> "null"]
\* What readline returns at end of stream: b"".
LineEmpty == [utf8 |-> TRUE, json |-> "empty", error |-> ErrAbsent, result |-> "null"]
\* No line read (yet).
NoLine == [utf8 |-> TRUE, json |-> "none", error |-> ErrAbsent, result |-> "null"]

ErrorLines == {ObjLine(e, "null") : e \in ErrorValues \ {ErrAbsent, ErrNull}}

Lines == {LinePong, LineNullResult, LineNotJson, LineArray, LineNumber, LineBadUtf8} \cup ErrorLines

\* The values of a response's "result" field: {"pong": true}, {"pong": 1},
\* {"pong": false}, {}, [1] and null.
Results == {"pong", "pong_one", "pong_false", "empty_map", "list", "null"}

\* The result is a JSON object, a dict with a get method.
IsMapping(r) == r \in {"pong", "pong_one", "pong_false", "empty_map"}

\* result.get("pong"): the Python value of the pong entry, None when there
\* is none.
GetPong(r) ==
    CASE r = "pong" -> "True"
      [] r = "pong_one" -> "1"
      [] r = "pong_false" -> "False"
      [] OTHER -> "None"

\* The lines the listener sends to a caller of ping and execute: an object
\* with each result, a remote error, text that is not JSON and an array.
WrapperLines == {ObjLine(ErrAbsent, r) : r \in Results} \cup {ObjLine(ErrStrBoom, "null"), LineNotJson, LineArray}

\* The lines the listener sends when several callers run: one of each way
\* request treats a line.
ListenerLines == {LinePong, ObjLine(ErrStrBoom, "null"), ObjLine(ErrMapBoom, "null"), LineNotJson, LineArray}

\* ------------------------------------------------------------ outcomes
\* What a call hands to its caller: exc = "none" and a result, or an
\* exception class with its message.  src is the id of the request the
\* listener produced the decoded line for (0 when no line was decoded).
Msg(text, timeout, method, cause) == [text |-> text, timeout |-> timeout, method |-> method, cause |-> cause]
PlainMsg(text) == Msg(text, 0, "", "")
Outcome(exc, msg, result, src) == [exc |-> exc, msg |-> msg, result |-> result, src |-> src]
NoOutcome == Outcome("pending", PlainMsg(""), "null", 0)
Returned(result, src) == Outcome("none", PlainMsg(""), result, src)
Raised(exc, msg, src) == Outcome(exc, msg, "null", src)

\* ------------------------------------------------------------- state
VARIABLES
    _connected,     \* self._connected
    _writer,        \* self._writer: a socket, or None
    _reader,        \* self._reader: a socket, or None
    _request_id,    \* self._request_id
    _lock,          \* self._lock: asyncio.Lock, [locked, waiters]
    socks,          \* every socket open_connection has returned
    nsock,          \* how many there are
    running,        \* the task the event loop is running, or None
    pc,             \* where each task is in its call
    frame,          \* each task's locals of the call it is in
    calls,          \* calls the callers may still start
    _connection,    \* the module's _connection: an instance, or None
    instances,      \* every ReaperConnection constructed: its host and port
    environ,        \* os.environ's REAPER_MCP_PORT
    scripts,        \* the tracker's scripts table, by hash
    script_runs,    \* the tracker's script_runs table, in id order
    clock,          \* what time.time() returns
    last            \* what the last synchronous call handed to its caller

\* The state of the process outside the one client the tasks share.
process == <<_connection, instances, environ, scripts, script_runs, clock, last>>

\* The state of that client, its sockets and its callers.
connection == <<_connected, _writer, _reader, _request_id, _lock, socks, nsock, running, pc, frame, calls>>

vars == <<_connected, _writer, _reader, _request_id, _lock, socks, nsock, running, pc, frame, calls,
          _connection, instances, environ, scripts, script_runs, clock, last>>

client == <<_connected, _writer, _reader>>

\* the connected property
connected == _connected /\ _writer # None

\* A call's locals: the arguments, request_id, the writer drain was called
\* on (wsock), the reader readline was called on (rsock), the line it returned, the exception raised inside the try
\* block, and what the call hands to its caller (out).  attempts and writes
\* count the call's connect attempts and socket writes; entry_connected is
\* the connected property when the call was made.  via is the method of the
\* client the caller called (request itself, or ping or execute, which call
\* request); passed is the timeout argument request was given, params_ms the
\* timeout_ms entry of its params, and ret what ping hands to its caller.
NoParamsMs == [given |-> FALSE, ms |-> 0]
NoRet == [exc |-> "pending", value |-> FALSE]

NoFrame == [op |-> "none", method |-> "", timeout |-> 0, request_id |-> 0, wsock |-> None, rsock |-> None,
            line |-> NoLine, raised |-> "none", attempts |-> 0, writes |-> 0,
            entry_connected |-> FALSE, out |-> NoOutcome,
            via |-> "none", passed |-> 0, params_ms |-> NoParamsMs, ret |-> NoRet]

\* A socket: state is "open", "closed" (this client closed it) or "broken"
\* (an OS-level error ended it; error is the exception its streams raise from
\* then on); peer_closed: the listener closed its end; pending: the ids of
\* the requests the listener has received and not answered; inbound: the
\* lines the listener has sent and the client has not read, each with the id
\* of the request it answers.
UnusedSock == [state |-> "unused", error |-> "none", peer_closed |-> FALSE, pending |-> <<>>, inbound |-> <<>>]
FreshSock == [state |-> "open", error |-> "none", peer_closed |-> FALSE, pending |-> <<>>, inbound |-> <<>>]

\* __init__, lines 29-33, and no caller yet; budget is the number of
\* calls the callers will make.
Constructed(budget) ==
    /\ _connected = FALSE
    /\ _writer = None
    /\ _reader = None
    /\ _request_id = 0
    /\ _lock = [locked |-> FALSE, waiters |-> <<>>]
    /\ socks = [s \in SockId |-> UnusedSock]
    /\ nsock = 0
    /\ running = None
    /\ pc = [t \in Task |-> "idle"]
    /\ frame = [t \in Task |-> NoFrame]
    /\ calls = budget

InitConnection == Constructed(MaxCalls)

\* REAPER_MCP_PORT in the environment: unset, or its text.
EnvUnset == [set |-> FALSE, text |-> ""]
EnvSet(text) == [set |-> TRUE, text |-> text]

\* What a synchronous call hands to its caller: fn is the function, args
\* its arguments, exc the exception class ("none" when it returned) and
\* value what it returned.
Result(fn, args, exc, value) == [fn |-> fn, args |-> args, exc |-> exc, value |-> value]
NoResult == Result("none", <<>>, "none", None)

\* The process when the modules are imported: _connection = None (line
\* 174), no client constructed, an empty tracker database.
InitProcess ==
    /\ _connection = None
    /\ instances = <<>>
    /\ environ = EnvUnset
    /\ scripts = {}
    /\ script_runs = <<>>
    /\ clock = 0
    /\ last = NoResult

Init == InitConnection /\ InitProcess

\* ------------------------------------------------- exceptions and handlers
OSErrors == {"ConnectionResetError", "TimeoutError"}

\* except asyncio.TimeoutError (line 115) matches the class wait_for raises.
\* From Python 3.11 on that class is the builtin TimeoutError, the subclass
\* of OSError a socket raises for ETIMEDOUT; before, the two are unrelated.
\* alias is which of the two the interpreter running the client does.
IsAsyncioTimeout(exc, alias) == exc = "asyncio.TimeoutError" \/ (alias /\ exc = "TimeoutError")

\* except (OSError, json.JSONDecodeError), line 120.
IsOSErrorOrJSONDecodeError(exc, alias) ==
    \/ exc \in OSErrors
    \/ exc = "JSONDecodeError"
    \/ (alias /\ exc = "asyncio.TimeoutError")

\* What the body of the try block does with the line readline returned:
\* the exception it raises ("none": it returns), and whether it has set
\* _connected = False before.
Body(exc, msg, result, clear) == [exc |-> exc, msg |-> msg, result |-> result, clear |-> clear]

\* Mutant: the mapping's message field is ignored.
ErrorMessageStr(error) == error.s

\* request, lines 109-111: the message of the error raised for a truthy
\* error field.
ErrorMessage(error) ==
    IF error.t = "map"
        THEN (IF error.has_message THEN error.message ELSE error.s)
        ELSE error.s

\* Mutant: the peer's close is reported without marking the connection.
ClosedKeepsConnected == Body("ConnectionError", PlainMsg("Connection closed by REAPER"), "null", FALSE)

\* request, lines 101-103: b"" was read.
ClosedByRemote == Body("ConnectionError", PlainMsg("Connection closed by REAPER"), "null", TRUE)

\* Mutant: a remote error marks the connection disconnected.
RemoteErrorDisconnects(error) == Body("ConnectionError", PlainMsg(ErrorMessage(error)), "null", TRUE)

\* request, lines 107-111: the response carries a truthy error.
RemoteError(error) == Body("ConnectionError", PlainMsg(ErrorMessage(error)), "null", FALSE)

\* request, lines 101-113: what the try block does with the line read.
Decode(line) ==
    IF line = LineEmpty
        THEN ClosedByRemote
    ELSE IF ~line.utf8
        THEN Body("UnicodeDecodeError", PlainMsg("invalid start byte"), "null", FALSE)
    ELSE IF line.json = "invalid"
        THEN Body("JSONDecodeError", PlainMsg("Expecting value"), "null", FALSE)
    ELSE IF line.json = "number"
        THEN Body("TypeError", PlainMsg("argument of type 'int' is not iterable"), "null", FALSE)
    ELSE IF line.json = "array"
        THEN Body("AttributeError", PlainMsg("'list' object has no attribute 'get'"), "null", FALSE)
    ELSE IF line.error.t # "absent" /\ Truthy(line.error)
        THEN RemoteError(line.error)
    ELSE Body("none", PlainMsg(""), line.result, FALSE)

\* Mutant: the timeout handler marks the connection disconnected.
TimedOutDisconnects(b, method, timeout) ==
    Body("ConnectionError", Msg("Request timed out", timeout, method, ""), "null", TRUE)

\* request, lines 115-119: the timeout handler; _connected is left alone.
TimedOut(b, method, timeout) ==
    Body("ConnectionError", Msg("Request timed out", timeout, method, ""), "null", b.clear)

\* request, lines 120-122: the handler of OSError and JSONDecodeError.
CommunicationError(b) ==
    Body("ConnectionError", Msg("Communication error", 0, "", b.exc), "null", TRUE)

\* The except clauses of request, applied to what the try block raised;
\* any other exception propagates.
Handle(b, method, timeout, alias) ==
    IF b.exc = "none" THEN b
    ELSE IF IsAsyncioTimeout(b.exc, alias) THEN TimedOut(b, method, timeout)
    ELSE IF IsOSErrorOrJSONDecodeError(b.exc, alias) THEN CommunicationError(b)
    ELSE b

\* The tasks inside drain: they hold the writer they called it on.
Draining == {u \in Task : pc[u] \in {"drain", "readcall"}}

\* The sockets some stream handle still refers to: the client's reader and
\* writer, the writers of the tasks inside drain, and the readers the tasks
\* in rd are waiting on.
Referenced(w, r, rd) == {w, r} \cup {frame[u].wsock : u \in Draining} \cup {frame[u].rsock : u \in rd}

Reading == {u \in Task : pc[u] = "reading"}

\* The streams of a socket nothing refers to are garbage: what they held is
\* gone, and all that is left of the socket is whether this client has it
\* open.
Collect(sk, w, r, rd) ==
    [s \in SockId |->
        IF s \in Referenced(w, r, rd) \/ sk[s].state = "unused" THEN sk[s]
        ELSE [UnusedSock EXCEPT !.state = IF sk[s].state = "open" THEN "open" ELSE "closed"]]

\* ------------------------------------------------------ the event loop
\* A task may take a step when the loop is free or is running it.
Sched(t) == running \in {None, t}

SetPc(t, l) == pc' = [pc EXCEPT ![t] = l]

\* ----------------------------------------------------------- connect
\* Mutant: ensure_connected connects whatever the state.
AlwaysConnect == TRUE

\* ensure_connected: connect only when not connected.
NeedsConnect == ~connected

\* request, lines 78-90: the statements a call runs before it writes, in
\* the order of the code: the lazy connect (line 78), the id (lines
\* 80-81), the gate (line 90).
AllocFirst == <<"alloc", "ensure", "acquire">>
Order == <<"ensure", "alloc", "acquire">>

\* The statement a call starts with, and the one after a statement.
First == Order[1]
After(step) == Order[(CHOOSE i \in DOMAIN Order : Order[i] = step) + 1]

\* request, lines 72-82, entered from the client's method via with the
\* timeout argument and the params' timeout_ms entry; line 82 replaces a
\* timeout of None or 0 by REQUEST_TIMEOUT.
Enter(t, via, method, timeout, params_ms) ==
    /\ pc[t] = "idle" /\ running = None
    /\ calls > 0 /\ calls' = calls - 1
    /\ frame' = [frame EXCEPT ![t] = [NoFrame EXCEPT
                    !.op = "request", !.method = method,
                    !.timeout = IF timeout = None THEN REQUEST_TIMEOUT ELSE timeout,
                    !.entry_connected = connected,
                    !.via = via, !.passed = timeout, !.params_ms = params_ms]]
    /\ SetPc(t, First) /\ running' = t
    /\ UNCHANGED <<client, _request_id, _lock, socks, nsock>>

\* The call, made by code that touches nothing else of the process.
Call(t, via, method, timeout, params_ms) ==
    Enter(t, via, method, timeout, params_ms) /\ UNCHANGED process

\* request, line 78: the call is made.
RequestCall(t, method, timeout) == Call(t, "request", method, timeout, NoParamsMs)

\* --------------------------------------------------------------- ping
\* ping, line 127: request("ping", timeout=2.0).
PingCall(t) == Call(t, "ping", "ping", PING_TIMEOUT, NoParamsMs)

\* Mutant: any truthy pong counts.
IsTruthy(v) == v \in {"True", "1"}

\* ping, line 128: ... is True.
IsTrue(v) == v = "True"

\* ping, lines 127-128: the exception of the request, or the value of the
\* return expression; get on a result that is no mapping raises.
PingBody(out) ==
    IF out.exc # "none" THEN [exc |-> out.exc, value |-> FALSE]
    ELSE IF out.result = "null" THEN [exc |-> "none", value |-> FALSE]
    ELSE IF ~IsMapping(out.result) THEN [exc |-> "AttributeError", value |-> FALSE]
    ELSE [exc |-> "none", value |-> IsTrue(GetPong(out.result))]

\* Mutant: ping catches the bridge's error only.
CatchesConnectionError(exc) == exc = "ConnectionError"

\* ping, line 129: except Exception matches every exception request and
\* line 128 raise.
CatchesException(exc) == TRUE

\* ping, lines 126-130.
Ping(out) ==
    IF PingBody(out).exc # "none" /\ CatchesException(PingBody(out).exc)
        THEN [exc |-> "none", value |-> FALSE]
        ELSE PingBody(out)

\* ping, lines 128-130: the request has ended and ping makes its result.
PingReturn(t) ==
    /\ pc[t] = "done" /\ running = t
    /\ frame[t].via = "ping" /\ frame[t].ret = NoRet
    /\ frame' = [frame EXCEPT ![t].ret = Ping(frame[t].out)]
    /\ UNCHANGED <<client, _request_id, _lock, socks, nsock, process, running, pc, calls>>

\* ------------------------------------------------------------ execute
\* The timeout_ms arguments execute is called with: none, or a number of
\* milliseconds (whole seconds, so that the division by 1000.0 is exact).
GivenMs(n) == [given |-> TRUE, ms |-> n]
ExecTimeouts == {NoParamsMs, GivenMs(0), GivenMs(1000), GivenMs(5000), GivenMs(120000)}

\* execute, lines 148-149: timeout_ms goes into the params when it is not
\* None.
ExecParamsMs(timeout_ms) == [given |-> timeout_ms.given, ms |-> IF timeout_ms.given THEN timeout_ms.ms ELSE 0]

\* execute, line 152: timeout_ms or 120000; None and 0 are both falsy.
OrDefault(timeout_ms) ==
    IF timeout_ms.given /\ timeout_ms.ms # 0 THEN timeout_ms.ms ELSE DEFAULT_SCRIPT_MS

\* execute, lines 152-153: the socket timeout in seconds.
SocketTimeout(timeout_ms) == (OrDefault(timeout_ms) \div 1000) + SOCKET_BUFFER

\* execute, lines 145-155: request("exec", params, timeout=socket_timeout).
ExecuteCall(t, timeout_ms) ==
    Call(t, "execute", "exec", SocketTimeout(timeout_ms), ExecParamsMs(timeout_ms))

\* ensure_connected, lines 69-70: connect (and suspend in open_connection)
\* when not connected, go on otherwise.
EnsureConnected(t) ==
    /\ pc[t] = "ensure" /\ running = t
    /\ IF NeedsConnect
         THEN /\ frame' = [frame EXCEPT ![t].attempts = @ + 1]
              /\ SetPc(t, "connecting") /\ running' = None
         ELSE /\ SetPc(t, After("ensure"))
              /\ UNCHANGED <<frame, running>>
    /\ UNCHANGED <<client, _request_id, _lock, socks, nsock, process, calls>>

\* connect() called by the caller itself.
ConnectCall(t) ==
    /\ pc[t] = "idle" /\ running = None
    /\ calls > 0 /\ calls' = calls - 1
    /\ frame' = [frame EXCEPT ![t] = [NoFrame EXCEPT !.op = "connect", !.attempts = 1]]
    /\ SetPc(t, "connecting") /\ running' = None
    /\ UNCHANGED <<client, _request_id, _lock, socks, nsock, process>>

\* connect, lines 42-47: open_connection returned a new socket.
ConnectOk(t) ==
    /\ pc[t] = "connecting" /\ running = None
    /\ nsock' = nsock + 1
    /\ socks' = Collect([socks EXCEPT ![nsock + 1] = FreshSock], nsock + 1, nsock + 1, Reading)
    /\ _reader' = nsock + 1
    /\ _writer' = nsock + 1
    /\ _connected' = TRUE
    /\ IF frame[t].op = "connect"
         THEN /\ SetPc(t, "done") /\ running' = t
              /\ frame' = [frame EXCEPT ![t].out = Returned("null", 0)]
         ELSE /\ SetPc(t, After("ensure")) /\ running' = t
              /\ UNCHANGED frame
    /\ UNCHANGED <<_request_id, _lock, calls, process>>

\* What open_connection under wait_for can raise: an OS error (nobody
\* listens on the port), or the establish timeout after CONNECT_TIMEOUT.
ConnectErrors == {"ConnectionRefusedError", "asyncio.TimeoutError"}

\* Mutant: a failed connect leaves the connected flag alone.
CannotConnectKeepsFlag(e, flag) ==
    [out |-> Raised("ConnectionError", Msg("Cannot connect to REAPER", 0, "", e), 0), flag |-> flag]

\* connect, lines 48-53: the handler of OSError and asyncio.TimeoutError
\* clears the flag and raises the bridge's error naming the cause.
CannotConnect(e, flag) ==
    [out |-> Raised("ConnectionError", Msg("Cannot connect to REAPER", 0, "", e), 0), flag |-> FALSE]

\* Mutant: a failed connect is tried again.
RetryConnect == "ensure"

\* connect, lines 50-53: the error is raised to the caller; nothing in
\* connect, ensure_connected or request catches it, so the call is over.
RaiseToCaller == "done"

\* connect, lines 42-45 and 48-53: establishing the connection fails.
ConnectFail(t, e) ==
    /\ pc[t] = "connecting" /\ running = None
    /\ _connected' = CannotConnect(e, _connected).flag
    /\ frame' = [frame EXCEPT ![t].raised = e, ![t].out = CannotConnect(e, _connected).out]
    /\ SetPc(t, RaiseToCaller) /\ running' = t
    /\ UNCHANGED <<_writer, _reader, _request_id, _lock, socks, nsock, process, calls>>

\* -------------------------------------------------------- disconnect
\* disconnect, lines 57-60: close the writer and wait for it; with no writer
\* the fields are reset at once (lines 63-65).
DisconnectCall(t) ==
    /\ pc[t] = "idle" /\ running = None
    /\ calls > 0 /\ calls' = calls - 1
    /\ IF _writer # None
         THEN /\ socks' = [socks EXCEPT ![_writer].state = "closed", ![_writer].pending = <<>>]
              /\ SetPc(t, "closing") /\ running' = None
              /\ frame' = [frame EXCEPT ![t] = [NoFrame EXCEPT !.op = "disconnect"]]
              /\ UNCHANGED client
         ELSE /\ _writer' = None /\ _reader' = None /\ _connected' = FALSE
              /\ SetPc(t, "done") /\ running' = t
              /\ frame' = [frame EXCEPT ![t] = [NoFrame EXCEPT !.op = "disconnect", !.out = Returned("null", 0)]]
              /\ UNCHANGED socks
    /\ UNCHANGED <<_request_id, _lock, nsock, process>>

\* What wait_closed does: it returns ("none"), or raises the error the
\* connection was lost with.
CloseErrors == {"none", "ConnectionResetError"}

\* Mutant: the error of the close is not swallowed.
NotSwallowed(e) == e

\* disconnect, lines 61-62: except Exception: pass.
Swallowed(e) == "none"

\* disconnect, lines 60-65: wait_closed returns or raises, the error is
\* swallowed, and the handles and the flag are reset.
DisconnectFinish(t, e) ==
    /\ pc[t] = "closing" /\ running = None
    /\ IF Swallowed(e) = "none"
         THEN /\ _writer' = None /\ _reader' = None /\ _connected' = FALSE
              /\ socks' = Collect(socks, None, None, Reading)
              /\ frame' = [frame EXCEPT ![t].raised = e, ![t].out = Returned("null", 0)]
         ELSE /\ UNCHANGED <<client, socks>>
              /\ frame' = [frame EXCEPT ![t].raised = e, ![t].out = Raised(Swallowed(e), PlainMsg(e), 0)]
    /\ SetPc(t, "done") /\ running' = t
    /\ UNCHANGED <<_request_id, _lock, nsock, process, calls>>

\* ------------------------------------------------------------ request
\* Mutant: the counter starts again at every request.
RestartId(n) == 1

\* request, line 80: self._request_id += 1.
NextId(n) == n + 1

\* request, lines 80-81: the next request id, taken without an await
\* between the increment and the read.
Alloc(t) ==
    /\ pc[t] = "alloc" /\ running = t
    /\ _request_id' = NextId(_request_id)
    /\ frame' = [frame EXCEPT ![t].request_id = NextId(_request_id)]
    /\ SetPc(t, After("alloc"))
    /\ UNCHANGED <<client, _lock, socks, nsock, process, running, calls>>

\* Mutant: the gate is entered without regard to who holds it.
LockIgnored == TRUE

\* Mutant: a free gate is taken past the callers already waiting.
Barging == ~_lock.locked

\* asyncio.Lock.acquire: taken at once when free and nobody waits.
LockFree == ~_lock.locked /\ _lock.waiters = <<>>

\* request, line 90: async with self._lock, entering.
Acquire(t) ==
    /\ pc[t] = "acquire" /\ running = t
    /\ IF LockFree
         THEN /\ _lock' = [_lock EXCEPT !.locked = TRUE]
              /\ SetPc(t, "write") /\ UNCHANGED running
         ELSE /\ _lock' = [_lock EXCEPT !.waiters = Append(@, t)]
              /\ SetPc(t, "waiting") /\ running' = None
    /\ UNCHANGED <<client, _request_id, socks, nsock, process, frame, calls>>

\* asyncio.Lock: the first waiter is woken by release and takes the lock.
Wake(t) ==
    /\ pc[t] = "waiting" /\ running = None
    /\ ~_lock.locked /\ _lock.waiters # <<>> /\ Head(_lock.waiters) = t
    /\ _lock' = [locked |-> TRUE, waiters |-> Tail(_lock.waiters)]
    /\ SetPc(t, "write") /\ running' = t
    /\ UNCHANGED <<client, _request_id, socks, nsock, process, frame, calls>>

\* Mutant: the gate is not released.
ReleaseSkipped(l) == l

\* asyncio.Lock.release.
Released(l) == [l EXCEPT !.locked = FALSE]

\* The exchange ends inside the try block: the except clauses run, the
\* outcome is kept for the caller, and the task is about to leave the
\* async with block.
Finish(t, line, b, src, alias) ==
    LET h == Handle(b, frame[t].method, frame[t].timeout, alias) IN
    /\ _connected' = IF h.clear THEN FALSE ELSE _connected
    /\ frame' = [frame EXCEPT ![t].line = line, ![t].raised = b.exc,
                              ![t].out = Outcome(h.exc, h.msg, h.result, src)]
    /\ SetPc(t, "exit") /\ running' = t

\* request, lines 92-93: the message is written on self._writer.  The
\* listener receives it when the socket is open at both ends.
Write(t) ==
    /\ pc[t] = "write" /\ running = t
    /\ IF _writer = None
         THEN /\ Finish(t, NoLine, Body("AttributeError", PlainMsg("'NoneType' object has no attribute 'write'"), "null", FALSE), 0, FALSE)
              /\ UNCHANGED socks
         ELSE /\ socks' = IF socks[_writer].state = "open" /\ ~socks[_writer].peer_closed
                            THEN [socks EXCEPT ![_writer].pending = Append(@, frame[t].request_id)]
                            ELSE socks
              /\ frame' = [frame EXCEPT ![t].writes = @ + 1, ![t].wsock = _writer]
              /\ SetPc(t, "drain")
              /\ UNCHANGED <<_connected, running>>
    /\ UNCHANGED <<_writer, _reader, _request_id, _lock, nsock, process, calls>>

\* request, line 94: drain returns, at once or after a suspension.  On a
\* socket this client has closed it raises instead.
Drain(t) ==
    /\ pc[t] = "drain" /\ running = t
    /\ socks[_writer].state = "open"
    /\ SetPc(t, "readcall")
    /\ running' \in {t, None}
    /\ UNCHANGED <<client, _request_id, _lock, socks, nsock, process, frame, calls>>

\* The OS-level errors the streams of socket s can raise: the one that broke
\* it, a reset on a socket this client has closed, any on an open one.
CanRaise(s, e) ==
    /\ e \in OSErrors
    /\ socks[s].state = "broken" => e = socks[s].error
    /\ socks[s].state = "closed" => e = "ConnectionResetError"

\* An OS-level error ends an open socket.
Broken(s, e) ==
    IF socks[s].state = "open"
        THEN [socks EXCEPT ![s].state = "broken", ![s].error = e, ![s].pending = <<>>]
        ELSE socks

\* request, line 94: drain raises an OS-level error.
DrainError(t, e, alias) ==
    /\ pc[t] = "drain" /\ running = t
    /\ CanRaise(_writer, e)
    /\ socks' = Broken(_writer, e)
    /\ Finish(t, NoLine, Body(e, PlainMsg(e), "null", FALSE), 0, alias)
    /\ UNCHANGED <<_writer, _reader, _request_id, _lock, nsock, process, calls>>

\* request, lines 96-99: readline is called on self._reader and the task
\* waits for a line.
ReadCall(t) ==
    /\ pc[t] = "readcall" /\ Sched(t)
    /\ IF _reader = None
         THEN Finish(t, NoLine, Body("AttributeError", PlainMsg("'NoneType' object has no attribute 'readline'"), "null", FALSE), 0, FALSE)
         ELSE /\ frame' = [frame EXCEPT ![t].rsock = _reader]
              /\ SetPc(t, "reading") /\ running' = None
              /\ UNCHANGED _connected
    /\ UNCHANGED <<_writer, _reader, _request_id, _lock, socks, nsock, process, calls>>

\* readline has nothing to return but b"": the stream has ended and its
\* buffer is empty.
AtEof(s) ==
    /\ socks[s].state # "broken"
    /\ socks[s].inbound = <<>>
    /\ socks[s].peer_closed \/ socks[s].state = "closed"

\* request, lines 96-113: a line has arrived and is decoded.
ReadLine(t) ==
    /\ pc[t] = "reading" /\ running = None
    /\ LET s == frame[t].rsock IN
        /\ socks[s].state # "broken"
        /\ socks[s].inbound # <<>>
        /\ socks' = Collect([socks EXCEPT ![s].inbound = Tail(@)], _writer, _reader, Reading \ {t})
        /\ Finish(t, Head(socks[s].inbound).line, Decode(Head(socks[s].inbound).line), Head(socks[s].inbound).for, FALSE)
    /\ UNCHANGED <<_writer, _reader, _request_id, _lock, nsock, process, calls>>

\* request, lines 101-103: readline returns b"" at end of stream.
ReadEmpty(t) ==
    /\ pc[t] = "reading" /\ running = None
    /\ AtEof(frame[t].rsock)
    /\ socks' = Collect(socks, _writer, _reader, Reading \ {t})
    /\ Finish(t, LineEmpty, Decode(LineEmpty), 0, FALSE)
    /\ UNCHANGED <<_writer, _reader, _request_id, _lock, nsock, process, calls>>

\* request, lines 96-99 and 115-119: no line within the timeout.
ReadTimeout(t) ==
    /\ pc[t] = "reading" /\ running = None
    /\ socks[frame[t].rsock].state = "open"
    /\ socks[frame[t].rsock].inbound = <<>> /\ ~AtEof(frame[t].rsock)
    /\ socks' = Collect(socks, _writer, _reader, Reading \ {t})
    /\ Finish(t, NoLine, Body("asyncio.TimeoutError", PlainMsg(""), "null", FALSE), 0, FALSE)
    /\ UNCHANGED <<_writer, _reader, _request_id, _lock, nsock, process, calls>>

\* request, lines 96-99: the read fails with an OS-level error.
ReadError(t, e, alias) ==
    /\ pc[t] = "reading" /\ running = None
    /\ socks[frame[t].rsock].state \in {"open", "broken"}
    /\ CanRaise(frame[t].rsock, e)
    /\ socks' = Collect(Broken(frame[t].rsock, e), _writer, _reader, Reading \ {t})
    /\ Finish(t, NoLine, Body(e, PlainMsg(e), "null", FALSE), 0, alias)
    /\ UNCHANGED <<_writer, _reader, _request_id, _lock, nsock, process, calls>>

\* request, line 90: async with self._lock, leaving, by return or by
\* exception.
Exit(t) ==
    /\ pc[t] = "exit" /\ running = t
    /\ _lock' = Released(_lock)
    /\ SetPc(t, "done") /\ running' = t
    /\ UNCHANGED <<client, _request_id, socks, nsock, process, frame, calls>>

\* The caller has the outcome; the task is free for its next call.
Return(t) ==
    /\ pc[t] = "done" /\ running = t
    /\ frame[t].via = "ping" => frame[t].ret # NoRet
    /\ frame' = [frame EXCEPT ![t] = NoFrame]
    /\ SetPc(t, "idle") /\ running' = None
    /\ UNCHANGED <<client, _request_id, _lock, socks, nsock, process, calls>>

\* connect, line 42, and disconnect, line 63: the assignment drops the
\* client's reference to the previous StreamWriter without closing it.  What
\* becomes of its socket is up to the interpreter: asyncio.StreamWriter has a
\* finalizer that closes the transport from CPython 3.11.5 on, run when the
\* last reference to the writer goes; other interpreters leave the socket
\* open.  So a socket that is open and whose writer nothing holds may be
\* closed at any later time, or never.
Finalize(s) ==
    /\ running = None
    /\ socks[s].state = "open"
    /\ s # _writer /\ \A u \in Draining : frame[u].wsock # s
    /\ socks' = Collect([socks EXCEPT ![s].state = "closed", ![s].pending = <<>>], _writer, _reader, Reading)
    /\ UNCHANGED <<client, _request_id, _lock, nsock, process, running, pc, frame, calls>>

\* ------------------------------------------------------- the listener
\* The listener answers the oldest request it has received on a socket.
ListenerReply(s, line) ==
    /\ running = None
    /\ socks[s].state = "open" /\ ~socks[s].peer_closed
    /\ socks[s].pending # <<>>
    /\ socks' = [socks EXCEPT ![s].pending = Tail(@),
                              ![s].inbound = Append(@, [for |-> Head(socks[s].pending), line |-> line])]
    /\ UNCHANGED <<client, _request_id, _lock, nsock, process, running, pc, frame, calls>>

\* The listener closes its end of a socket (the host quits or restarts).
ListenerClose(s) ==
    /\ running = None
    /\ socks[s].state = "open" /\ ~socks[s].peer_closed
    /\ socks' = [socks EXCEPT ![s].peer_closed = TRUE, ![s].pending = <<>>]
    /\ UNCHANGED <<client, _request_id, _lock, nsock, process, running, pc, frame, calls>>

Methods == {<<"ping", PING_TIMEOUT>>, <<"state", None>>}

Next ==
    \/ \E t \in Task, m \in Methods : RequestCall(t, m[1], m[2])
    \/ \E t \in Task : EnsureConnected(t)
    \/ \E t \in Task : ConnectCall(t)
    \/ \E t \in Task : ConnectOk(t)
    \/ \E t \in Task, e \in ConnectErrors : ConnectFail(t, e)
    \/ \E t \in Task : DisconnectCall(t)
    \/ \E t \in Task, e \in CloseErrors : DisconnectFinish(t, e)
    \/ \E t \in Task : Alloc(t)
    \/ \E t \in Task : Acquire(t)
    \/ \E t \in Task : Wake(t)
    \/ \E t \in Task : Write(t)
    \/ \E t \in Task : Drain(t)
    \/ \E t \in Task, e \in OSErrors, alias \in BOOLEAN : DrainError(t, e, alias)
    \/ \E t \in Task : ReadCall(t)
    \/ \E t \in Task : ReadLine(t)
    \/ \E t \in Task : ReadEmpty(t)
    \/ \E t \in Task : ReadTimeout(t)
    \/ \E t \in Task, e \in OSErrors, alias \in BOOLEAN : ReadError(t, e, alias)
    \/ \E t \in Task : Exit(t)
    \/ \E t \in Task : Return(t)
    \/ \E s \in SockId : Finalize(s)
    \/ \E s \in SockId, line \in ListenerLines : ListenerReply(s, line)
    \/ \E s \in SockId : ListenerClose(s)

Spec == Init /\ [][Next]_vars

\* Callers that only make requests, one more of them than in Spec, so that
\* a caller comes back with a new request while another still waits for
\* the gate; the listener answers each request with a pong or closes.
InitGate == Constructed(MaxGateCalls) /\ InitProcess

NextGate ==
    \/ \E t \in Task : RequestCall(t, "ping", PING_TIMEOUT)
    \/ \E t \in Task : EnsureConnected(t)
    \/ \E t \in Task : ConnectOk(t)
    \/ \E t \in Task, e \in ConnectErrors : ConnectFail(t, e)
    \/ \E t \in Task : Alloc(t)
    \/ \E t \in Task : Acquire(t)
    \/ \E t \in Task : Wake(t)
    \/ \E t \in Task : Write(t)
    \/ \E t \in Task : Drain(t)
    \/ \E t \in Task, e \in OSErrors, alias \in BOOLEAN : DrainError(t, e, alias)
    \/ \E t \in Task : ReadCall(t)
    \/ \E t \in Task : ReadLine(t)
    \/ \E t \in Task : ReadEmpty(t)
    \/ \E t \in Task : ReadTimeout(t)
    \/ \E t \in Task, e \in OSErrors, alias \in BOOLEAN : ReadError(t, e, alias)
    \/ \E t \in Task : Exit(t)
    \/ \E t \in Task : Return(t)
    \/ \E s \in SockId : Finalize(s)
    \/ \E s \in SockId : ListenerReply(s, LinePong)
    \/ \E s \in SockId : ListenerClose(s)

SpecGate == InitGate /\ [][NextGate]_vars

\* What the event loop and the two wait_for guarantee.  A task that can run
\* is run until it suspends; the first waiter of a released lock is woken;
\* open_connection under wait_for ends, with a socket or an error, within
\* CONNECT_TIMEOUT; readline under wait_for ends, with a line, the end of the
\* stream, an error or the timeout, within the request's timeout.  Nothing
\* is assumed of the listener, and so nothing of a suspended drain, which
\* resumes only when the listener reads, nor of new calls being made.
Fairness ==
    \A t \in Task :
        /\ WF_vars(EnsureConnected(t))
        /\ WF_vars(ConnectOk(t) \/ \E e \in ConnectErrors : ConnectFail(t, e))
        /\ WF_vars(Alloc(t))
        /\ WF_vars(Acquire(t))
        /\ WF_vars(Wake(t))
        /\ WF_vars(Write(t))
        /\ WF_vars(Drain(t) \/ \E e \in OSErrors, alias \in BOOLEAN : DrainError(t, e, alias))
        /\ WF_vars(ReadCall(t) /\ running = t)
        /\ WF_vars(ReadLine(t) \/ ReadEmpty(t) \/ ReadTimeout(t)
                     \/ \E e \in OSErrors, alias \in BOOLEAN : ReadError(t, e, alias))
        /\ WF_vars(Exit(t))
        /\ WF_vars(Return(t))

FairSpec == Spec /\ Fairness

\* One caller making its calls one after the other, and a listener that may
\* send any line.
Caller == 1

NextSeq ==
    \/ \E m \in Methods : RequestCall(Caller, m[1], m[2])
    \/ EnsureConnected(Caller)
    \/ ConnectOk(Caller)
    \/ \E e \in ConnectErrors : ConnectFail(Caller, e)
    \/ Alloc(Caller)
    \/ Acquire(Caller)
    \/ Write(Caller)
    \/ Drain(Caller)
    \/ \E e \in OSErrors, alias \in BOOLEAN : DrainError(Caller, e, alias)
    \/ ReadCall(Caller)
    \/ ReadLine(Caller)
    \/ ReadEmpty(Caller)
    \/ ReadTimeout(Caller)
    \/ \E e \in OSErrors, alias \in BOOLEAN : ReadError(Caller, e, alias)
    \/ Exit(Caller)
    \/ Return(Caller)
    \/ \E s \in SockId : Finalize(s)
    \/ \E s \in SockId, line \in Lines : ListenerReply(s, line)
    \/ \E s \in SockId : ListenerClose(s)

SpecSeq == Init /\ [][NextSeq]_vars

\* ------------------------------------------- constructor and singleton
MaxInstances == 3

DEFAULT_PORT == 9500
DEFAULT_HOST == "127.0.0.1"

\* The port argument: None (not given), or an integer.
NoPort == [given |-> FALSE, value |-> 0]
Port(n) == [given |-> TRUE, value |-> n]
PortArgs == {NoPort, Port(0), Port(8000), Port(DEFAULT_PORT)}

\* The host argument: left to its default, or a name.
NoHost == [given |-> FALSE, value |-> ""]
Host(h) == [given |-> TRUE, value |-> h]
HostArgs == {NoHost, Host("localhost")}

\* What REAPER_MCP_PORT can hold.
EnvValues == {EnvUnset, EnvSet("9600"), EnvSet("0"), EnvSet("abc"), EnvSet("")}

\* str(DEFAULT_PORT)
DefaultPortText == "9500"

\* int(text): the integer a decimal text denotes; a ValueError for any
\* other text, the empty one included.
ParsesAsInt(text) == text \in {"9500", "9600", "0", "2", "9"}
IntOf(text) == CASE text = "9500" -> 9500 [] text = "9600" -> 9600 [] text = "0" -> 0
                 [] text = "2" -> 2 [] text = "9" -> 9

\* os.getenv("REAPER_MCP_PORT", str(DEFAULT_PORT))
Getenv == IF environ.set THEN environ.text ELSE DefaultPortText

\* port or ...: the left operand when it is truthy, that is neither None
\* nor 0.
PortIsTruthy(port) == port.given /\ port.value # 0

\* __init__, line 27
HostOf(host) == IF host.given THEN host.value ELSE DEFAULT_HOST

\* __init__, line 28: the port, or the ValueError int raises.
PortOf(port) ==
    IF PortIsTruthy(port) THEN [exc |-> "none", value |-> port.value]
    ELSE IF ParsesAsInt(Getenv) THEN [exc |-> "none", value |-> IntOf(Getenv)]
    ELSE [exc |-> "ValueError", value |-> 0]

\* An instance: its host and port, and who constructed it.
Instance(host, port, by) == [host |-> host, port |-> port, by |-> by]

\* ReaperConnection(host, port) called by some code of the process.
NewConnection(host, port) ==
    /\ Len(instances) < MaxInstances
    /\ IF PortOf(port).exc = "none"
         THEN /\ instances' = Append(instances, Instance(HostOf(host), PortOf(port).value, "caller"))
              /\ last' = Result("ReaperConnection", <<host, port>>, "none", Len(instances) + 1)
         ELSE /\ last' = Result("ReaperConnection", <<host, port>>, PortOf(port).exc, None)
              /\ UNCHANGED instances
    /\ UNCHANGED <<connection, _connection, environ, scripts, script_runs, clock>>

\* get_connection, line 180
NeverCached(c) == TRUE
IsNone(c) == c = None

\* get_connection, lines 180-181: construct the instance when there is
\* none; a constructor that raises leaves _connection as it was.
GetOrCreate ==
    /\ IsNone(_connection) => Len(instances) < MaxInstances
    /\ IF IsNone(_connection) /\ PortOf(NoPort).exc = "none"
         THEN /\ instances' = Append(instances, Instance(HostOf(NoHost), PortOf(NoPort).value, "get_connection"))
              /\ _connection' = Len(instances) + 1
         ELSE UNCHANGED <<instances, _connection>>

\* get_connection, lines 177-182: the function has no await, so it runs
\* without another task in between.
GetConnection ==
    /\ GetOrCreate
    /\ last' = IF PortOf(NoPort).exc = "none" \/ ~IsNone(_connection)
                 THEN Result("get_connection", <<>>, "none", _connection')
                 ELSE Result("get_connection", <<>>, PortOf(NoPort).exc, None)
    /\ UNCHANGED <<connection, environ, scripts, script_runs, clock>>

\* The process starts with whatever environment it was given.
InitEnviron ==
    /\ InitConnection
    /\ _connection = None
    /\ instances = <<>>
    /\ environ \in EnvValues
    /\ scripts = {}
    /\ script_runs = <<>>
    /\ clock = 0
    /\ last = NoResult

NextProcess ==
    \/ GetConnection
    \/ \E host \in HostArgs, port \in PortArgs : NewConnection(host, port)

SpecProcess == InitEnviron /\ [][NextProcess]_vars

\* ------------------------------------------------------------ run_lua
\* execute, lines 132-133: the parameters a caller can pass by keyword.
ExecuteParameters == {"code", "undo_label", "timeout_ms"}

\* run_lua, lines 32-36: the arguments passed by keyword.
RunLuaKeywords == {"undo_label", "timeout"}

\* A call binds when every keyword names a parameter; Python raises
\* TypeError (unexpected keyword argument) otherwise, before the body of
\* the function runs.
Binds(keywords, parameters) == keywords \subseteq parameters

\* The timeout_ms arguments run_lua is called with.
RunLuaTimeouts == {1000, 5000, 10000}

\* run_lua, lines 28-36: the singleton client, then conn.execute(code,
\* undo_label=undo_label, timeout=timeout_ms / 1000.0).  The exception of
\* a call that does not bind is no ConnectionError, so line 37 lets it
\* through to run_lua's caller.
RunLua(t, timeout_ms) ==
    /\ GetOrCreate
    /\ IF Binds(RunLuaKeywords, ExecuteParameters)
         THEN /\ Enter(t, "run_lua", "exec", SocketTimeout(GivenMs(timeout_ms)), ExecParamsMs(GivenMs(timeout_ms)))
              /\ UNCHANGED <<environ, scripts, script_runs, clock, last>>
         ELSE /\ pc[t] = "idle" /\ running = None
              /\ calls > 0 /\ calls' = calls - 1
              /\ frame' = [frame EXCEPT ![t] = [NoFrame EXCEPT
                              !.op = "run_lua", !.via = "run_lua", !.passed = timeout_ms,
                              !.out = Raised("TypeError", PlainMsg("unexpected keyword argument 'timeout'"), 0)]]
              /\ SetPc(t, "done") /\ running' = t
              /\ UNCHANGED <<client, _request_id, _lock, socks, nsock, environ, scripts, script_runs, clock, last>>

\* One caller of ping and execute, and a listener that may send any shape
\* of result.
NextWrappers ==
    \/ PingCall(Caller)
    \/ \E timeout_ms \in ExecTimeouts : ExecuteCall(Caller, timeout_ms)
    \/ \E timeout_ms \in RunLuaTimeouts : RunLua(Caller, timeout_ms)
    \/ EnsureConnected(Caller)
    \/ ConnectOk(Caller)
    \/ \E e \in ConnectErrors : ConnectFail(Caller, e)
    \/ Alloc(Caller)
    \/ Acquire(Caller)
    \/ Write(Caller)
    \/ Drain(Caller)
    \/ \E e \in OSErrors, alias \in BOOLEAN : DrainError(Caller, e, alias)
    \/ ReadCall(Caller)
    \/ ReadLine(Caller)
    \/ ReadEmpty(Caller)
    \/ ReadTimeout(Caller)
    \/ \E e \in OSErrors, alias \in BOOLEAN : ReadError(Caller, e, alias)
    \/ Exit(Caller)
    \/ PingReturn(Caller)
    \/ Return(Caller)
    \/ \E s \in SockId : Finalize(s)
    \/ \E s \in SockId, line \in WrapperLines : ListenerReply(s, line)
    \/ \E s \in SockId : ListenerClose(s)

SpecWrappers == Init /\ [][NextWrappers]_vars

\* ------------------------------------------------------ script tracker
MaxRuns == 3
MaxClock == 2

\* The codes recorded: two that differ by one trailing space, and their
\* SHA-256 digests (hash_code, lines 85-88), shortened to eight digits.
Codes == {"return 1", "return 1 "}
hash_code(code) == CASE code = "return 1" -> "486d9aff" [] code = "return 1 " -> "a9900754"

\* The success and error arguments of record_execution.
NoError == "NULL"
Executions == {[success |-> TRUE, error |-> NoError], [success |-> FALSE, error |-> "boom"]}
ELAPSED_MS == 10

\* time.time() is the wall clock: between two readings it may have gone
\* forward, stood still (the readings fall within its resolution), or been
\* set back.
Readings == {n \in {clock - 1, clock, clock + 1} : 0 <= n /\ n <= MaxClock}

\* record_execution, lines 97-99: SELECT hash FROM scripts WHERE hash = ?
NoneExisting(code_hash) == {}
Existing(code_hash) == {r \in scripts : r.hash = code_hash}

\* record_execution, lines 102-111: the UPDATE of the script's row.
Update(r, e, elapsed_ms, now) ==
    [r EXCEPT !.run_count = @ + 1,
              !.error_count = @ + (IF e.success THEN 0 ELSE 1),
              !.total_elapsed_ms = @ + elapsed_ms,
              !.last_seen = now,
              !.last_error = IF e.error # NoError THEN e.error ELSE @]

\* record_execution, lines 113-119: the row INSERTed for a new script.
Inserted(code, e, elapsed_ms, now) ==
    [hash |-> hash_code(code), code |-> code, run_count |-> 1,
     error_count |-> IF e.success THEN 0 ELSE 1, total_elapsed_ms |-> elapsed_ms,
     first_seen |-> now, last_seen |-> now, last_error |-> e.error]

\* record_execution, lines 121-125: the run logged; id is the AUTOINCREMENT
\* key.
Run(code, e, elapsed_ms, now) ==
    [id |-> Len(script_runs) + 1, hash |-> hash_code(code), timestamp |-> now,
     elapsed_ms |-> elapsed_ms, success |-> IF e.success THEN 1 ELSE 0, error |-> e.error]

\* record_execution, lines 90-127: one transaction.
RecordExecution(code, e, now) ==
    /\ Len(script_runs) < MaxRuns
    /\ clock' = now
    /\ scripts' = IF Existing(hash_code(code)) # {}
                    THEN {IF r.hash = hash_code(code) THEN Update(r, e, ELAPSED_MS, now) ELSE r : r \in scripts}
                    ELSE scripts \cup {Inserted(code, e, ELAPSED_MS, now)}
    /\ script_runs' = Append(script_runs, Run(code, e, ELAPSED_MS, now))
    /\ last' = Result("record_execution", <<code, e>>, "none", hash_code(code))
    /\ UNCHANGED <<connection, _connection, instances, environ>>

\* ORDER BY timestamp DESC: the rows in an order of non-increasing
\* timestamp; SQL leaves the order of rows with equal timestamps open.
OrderByTimestampDesc ==
    {o \in Permutations(DOMAIN script_runs) :
        \A i, j \in DOMAIN script_runs : i < j => script_runs[o[i]].timestamp >= script_runs[o[j]].timestamp}

\* LIMIT n: the first n rows, all of them when n is negative.
Limit(rows, n) == IF n < 0 \/ n >= Len(rows) THEN rows ELSE SubSeq(rows, 1, n)

Limits == {-1, 0, 1, 2, 20}

\* get_history, lines 129-142
GetHistory(limit) ==
    /\ \E o \in OrderByTimestampDesc :
          last' = Result("get_history", <<limit>>, "none", Limit([i \in 1..Len(script_runs) |-> script_runs[o[i]]], limit))
    /\ UNCHANGED <<connection, _connection, instances, environ, scripts, script_runs, clock>>

NextTracker ==
    \/ \E code \in Codes, e \in Executions, now \in Readings : RecordExecution(code, e, now)
    \/ \E limit \in Limits : GetHistory(limit)

SpecTracker == Init /\ [][NextTracker]_vars

\* --------------------------------------------------- resolve_track_ref
MaxTracks == 3
MaxRef == 5

\* The project's tracks: dicts with a name and the 0-based index.
TrackNames == <<"Drums", "Bass", "Bass DI", "Keys", "Pads">>
Tracks(n) == [i \in 1..n |-> [name |-> TrackNames[i], index |-> i - 1]]

\* A reference: an int, a str, or a value of another type.
IntRef(n) == [type |-> "int", int |-> n, str |-> ""]
StrRef(text) == [type |-> "str", int |-> 0, str |-> text]
OtherRef == [type |-> "float", int |-> 0, str |-> ""]
Refs == {IntRef(n) : n \in -2..MaxRef}
          \cup {StrRef(text) : text \in {"drums", " Bass ", "ba", "2", "0", "9"}}
          \cup {OtherRef}

\* str.lower of a track name
Lower(name) ==
    CASE name = "Drums" -> "drums" [] name = "Bass" -> "bass" [] name = "Bass DI" -> "bass di"
      [] name = "Keys" -> "keys" [] name = "Pads" -> "pads"

\* ref.strip().lower()
StripLower(text) == IF text = " Bass " THEN "bass" ELSE text

\* ref_lower in name.lower()
IsIn(ref_lower, lname) ==
    <<ref_lower, lname>> \in {<<"drums", "drums">>, <<"bass", "bass">>, <<"bass", "bass di">>,
                              <<"ba", "bass">>, <<"ba", "bass di">>}

\* resolve_track_ref, line 105
ZeroBased(n) == IF n > 0 THEN n - 1 ELSE n

\* resolve_track_ref, lines 103-108: an integer reference.
ResolveInt(n, tracks) ==
    IF 0 <= ZeroBased(n) /\ ZeroBased(n) < Len(tracks)
      THEN [exc |-> "none", value |-> ZeroBased(n), text |-> ""]
      ELSE [exc |-> "ValueError", value |-> None, text |-> "out of range"]

\* resolve_track_ref, lines 110-137: a string reference.
ResolveStr(text, tracks) ==
    LET exact == {i \in DOMAIN tracks : Lower(tracks[i].name) = StripLower(text)}
        matches == {i \in DOMAIN tracks : IsIn(StripLower(text), Lower(tracks[i].name))}
        first(S) == CHOOSE i \in S : \A j \in S : i <= j
    IN  IF exact # {} THEN [exc |-> "none", value |-> tracks[first(exact)].index, text |-> ""]
        ELSE IF Cardinality(matches) = 1 THEN [exc |-> "none", value |-> tracks[first(matches)].index, text |-> ""]
        ELSE IF Cardinality(matches) > 1 THEN [exc |-> "ValueError", value |-> None, text |-> "Ambiguous track reference"]
        ELSE IF ParsesAsInt(text) /\ ResolveInt(IntOf(text), tracks).exc = "none" THEN ResolveInt(IntOf(text), tracks)
        ELSE [exc |-> "ValueError", value |-> None, text |-> "No track found matching"]

\* resolve_track_ref, lines 93-139
resolve_track_ref(ref, tracks) ==
    IF ref.type = "int" THEN ResolveInt(ref.int, tracks)
    ELSE IF ref.type = "str" THEN ResolveStr(ref.str, tracks)
    ELSE [exc |-> "ValueError", value |-> None, text |-> "Invalid track reference type"]

\* A call about to be made: its arguments, nothing handed back yet.
Pending(fn, args) == Result(fn, args, "pending", None)

\* A caller holds a reference and the project's tracks.
InitHelpers ==
    /\ InitConnection
    /\ _connection = None /\ instances = <<>> /\ environ = EnvUnset
    /\ scripts = {} /\ script_runs = <<>> /\ clock = 0
    /\ \E ref \in Refs, n \in 0..MaxTracks : last = Pending("resolve_track_ref", <<ref, Tracks(n)>>)

\* The call returns or raises.
ResolveTrackRef ==
    /\ last.fn = "resolve_track_ref" /\ last.exc = "pending"
    /\ last' = [last EXCEPT !.exc = resolve_track_ref(last.args[1], last.args[2]).exc,
                            !.value = resolve_track_ref(last.args[1], last.args[2])]
    /\ UNCHANGED <<connection, _connection, instances, environ, scripts, script_runs, clock>>

NextHelpers == ResolveTrackRef

SpecHelpers == InitHelpers /\ [][NextHelpers]_vars

\* ==================================================================
\* Claims
\* ==================================================================

\* A request is in its exchange from its write to the end of its read.
InExchange == {"drain", "readcall", "reading"}
\* A request is inside the async with block.
InGate == {"write", "drain", "readcall", "reading", "exit"}

IsRequest(t) == frame[t].op = "request"
Ended(t) == pc[t] = "done" /\ IsRequest(t)

\* C1: with any number of request calls running concurrently, at every
\* instant at most one of them is between the start of its write and the
\* end of its read.
C1_OneExchangeAtATime ==
    \A t, u \in Task : (pc[t] \in InExchange /\ pc[u] \in InExchange) => t = u

\* One request is waiting for its line while another waits for the gate.
C1_Witness ==
    \E t, u \in Task : t # u /\ pc[t] = "reading" /\ pc[u] = "waiting"

\* C2: every result or remote error a request delivers was decoded from the
\* line the listener produced for that same request.
C2_ResponseOfOwnRequest ==
    \A t \in Task :
        (Ended(t) /\ frame[t].out.src # 0 /\ frame[t].out.exc \in {"none", "ConnectionError"})
            => frame[t].out.src = frame[t].request_id

\* C3: after a request call has ended in any way the gate is free: it is
\* locked only while some request is inside the async with block.
C3_GateFreeAfterCall ==
    _lock.locked => \E t \in Task : pc[t] \in InGate

\* A request has ended with an exception that no except clause handles, and
\* the gate is free.
C3_Witness ==
    \E t \in Task : Ended(t) /\ frame[t].out.exc = "AttributeError" /\ ~_lock.locked

Disconnecting(out) ==
    /\ out.exc = "ConnectionError"
    /\ out.msg.text \in {"Cannot connect to REAPER", "Connection closed by REAPER", "Communication error"}

C5_OnlyConnectionError ==
    \A t \in Task : Ended(t) => frame[t].out.exc \in {"none", "ConnectionError"}

\* C6: when no line arrives within the timeout, the request fails with the
\* timeout error naming its method and its timeout, and the connection is
\* left marked as it was.
C6_TimeoutKeepsConnection ==
    [][\A t \in Task :
        (pc[t] = "reading" /\ frame[t].out = NoOutcome /\ frame'[t].raised = "asyncio.TimeoutError")
            => /\ frame'[t].out = Raised("ConnectionError",
                                         Msg("Request timed out", frame[t].timeout, frame[t].method, ""), 0)
               /\ _connected' = _connected
               /\ _writer' = _writer]_vars

\* A ping has timed out after its 2 s and the connection is still marked
\* connected.
C6_Witness ==
    \E t \in Task : /\ Ended(t) /\ frame[t].raised = "asyncio.TimeoutError"
                    /\ frame[t].method = "ping" /\ frame[t].out.msg.timeout = PING_TIMEOUT
                    /\ connected

\* C7: a read that returns the empty line marks the connection disconnected
\* and fails with the closed-by-remote error, and a request call that finds
\* the client unconnected connects before it writes anything.
C7_EmptyReadDisconnects ==
    [][\A t \in Task :
        /\ (frame[t].line # LineEmpty /\ frame'[t].line = LineEmpty)
              => /\ ~_connected'
                 /\ frame'[t].out = Raised("ConnectionError", PlainMsg("Connection closed by REAPER"), 0)
        /\ (IsRequest(t) /\ pc[t] = "ensure" /\ ~connected)
              => /\ pc'[t] = "connecting"
                 /\ socks' = socks]_vars

\* A request has written, read the empty line from the socket the listener
\* closed, and ended with the closed-by-remote error, the connection marked
\* disconnected.
C7_Witness ==
    \E t \in Task : /\ Ended(t) /\ frame[t].writes = 1 /\ frame[t].line = LineEmpty
                    /\ socks[frame[t].rsock].peer_closed
                    /\ frame[t].out.msg.text = "Connection closed by REAPER"
                    /\ ~connected

NotValidJson(line) == line \notin {NoLine, LineEmpty} /\ (~line.utf8 \/ line.json = "invalid")

\* C8: an OS-level error of the socket during the exchange, or a line that
\* is not valid JSON, marks the connection disconnected and fails with the
\* communication error wrapping the cause.
C8_CommunicationError ==
    \A t \in Task :
        (pc[t] \in {"exit", "done"} /\ (frame[t].raised \in OSErrors \/ NotValidJson(frame[t].line)))
            => /\ ~_connected
               /\ frame[t].out.exc = "ConnectionError"
               /\ frame[t].out.msg.text = "Communication error"
               /\ frame[t].out.msg.cause = frame[t].raised

\* C9: for a truthy error field the error raised carries the error value
\* itself when it is a string and its message field when it is a mapping,
\* so {"error": "boom"} and {"error": {"message": "boom"}} both give "boom".
C9_ErrorMessage ==
    \A t \in Task :
        (pc[t] \in {"exit", "done"} /\ frame[t].line.json = "object" /\ Truthy(frame[t].line.error))
            => LET e == frame[t].line.error
                   text == frame[t].out.msg.text IN
               /\ frame[t].out.exc = "ConnectionError"
               /\ (e.t = "str" => text = e.s)
               /\ (e.t = "map" /\ e.has_message => text = e.message)
               /\ (e \in {ErrStrBoom, ErrMapBoom} => text = "boom")

\* The response {"error": {"message": "boom"}} has been raised as "boom".
C9_Witness ==
    \E t \in Task : Ended(t) /\ frame[t].line.error = ErrMapBoom /\ frame[t].out.msg.text = "boom"

\* C10: a request made while the client is unconnected makes exactly one
\* connect attempt, finished before its write; a request made while the
\* client is connected makes none.
C10_LazyConnectOnce ==
    \A t \in Task :
        (IsRequest(t) /\ pc[t] # "ensure")
            => /\ frame[t].attempts = (IF frame[t].entry_connected THEN 0 ELSE 1)
               /\ (frame[t].writes > 0 => pc[t] # "connecting")
               /\ (pc[t] = "connecting" => frame[t].writes = 0)

\* A request that found the client unconnected has connected once and then
\* written.
C10_Witness ==
    \E t \in Task : /\ pc[t] = "drain" /\ ~frame[t].entry_connected
                    /\ frame[t].attempts = 1 /\ frame[t].writes = 1

\* C11: when establishing the connection fails with an OS error or exceeds
\* the establish timeout, connect raises the bridge's error "Cannot connect"
\* naming the cause, and the client is left unconnected.
C11_CannotConnect ==
    [][\A t \in Task :
        (pc[t] = "connecting" /\ frame'[t].raised \in ConnectErrors)
            => /\ frame'[t].out = Raised("ConnectionError",
                                         Msg("Cannot connect to REAPER", 0, "", frame'[t].raised), 0)
               /\ pc'[t] = "done"
               /\ ~connected']_vars

\* A connect() made while the client was connected has exceeded the
\* establish timeout: the call has raised and the client is unconnected.
C11_Witness ==
    \E t \in Task : /\ pc[t] = "done" /\ frame[t].op = "connect"
                    /\ frame[t].raised = "asyncio.TimeoutError"
                    /\ frame[t].out.msg.text = "Cannot connect to REAPER"
                    /\ _writer # None /\ ~connected

\* C12: nothing is retried inside the client.  A request call makes at most
\* one connect attempt and at most one write, a connect call makes exactly
\* one attempt, and once a call has its outcome it attempts and writes
\* nothing more.
C12_NoRetry ==
    [][\A t \in Task :
        /\ frame'[t].op = "request" => (frame'[t].attempts <= 1 /\ frame'[t].writes <= 1)
        /\ frame'[t].op = "connect" => frame'[t].attempts = 1
        /\ (frame[t].out # NoOutcome /\ frame'[t].op # "none")
              => /\ frame'[t].attempts = frame[t].attempts
                 /\ frame'[t].writes = frame[t].writes
                 /\ pc'[t] \in {"exit", "done"}]_vars

\* A request has connected once, written once, timed out, and ended.
C12_Witness ==
    \E t \in Task : /\ Ended(t) /\ frame[t].out.msg.text = "Request timed out"
                    /\ frame[t].attempts = 1 /\ frame[t].writes = 1

\* C13: disconnect never raises and leaves the client unconnected with both
\* handles cleared, whether it was connected, was already disconnected, or
\* the close itself failed; a disconnect of a client already reset changes
\* nothing.
C13_DisconnectResets ==
    [][\A t \in Task :
        /\ (frame'[t].op = "disconnect" /\ frame[t].out = NoOutcome /\ frame'[t].out # NoOutcome)
              => /\ frame'[t].out = Returned("null", 0)
                 /\ _writer' = None /\ _reader' = None /\ ~_connected'
        /\ (pc[t] = "idle" /\ frame'[t].op = "disconnect"
                /\ _writer = None /\ _reader = None /\ ~_connected)
              => /\ frame'[t].out = Returned("null", 0)
                 /\ UNCHANGED <<client, _request_id, _lock, socks, nsock, process>>]_vars

\* A disconnect of a connected client has returned although waiting for the
\* close raised; the handles are cleared.
C13_Witness ==
    \E t \in Task : /\ pc[t] = "done" /\ frame[t].op = "disconnect"
                    /\ frame[t].raised = "ConnectionResetError"
                    /\ frame[t].out.exc = "none"
                    /\ nsock = 1 /\ _writer = None /\ _reader = None /\ ~_connected

\* The step is the successful end of a connect by task t.
ConnectSucceeds(t) ==
    /\ pc[t] = "connecting" /\ frame'[t].raised = "none"
    /\ _writer' = nsock' /\ nsock' = nsock + 1

\* The step is an I/O failure met by task t: connecting fails, or the
\* exchange fails with an OS-level error or a line that cannot be decoded.
IOFailure(t) ==
    /\ frame[t].out = NoOutcome /\ frame'[t].out # NoOutcome
    /\ frame'[t].raised \in ConnectErrors \cup OSErrors \cup {"JSONDecodeError"}

\* The step is task t reading the end of a stream the listener has closed.
PeerClose(t) ==
    /\ frame[t].line # LineEmpty /\ frame'[t].line = LineEmpty
    /\ socks[frame[t].rsock].peer_closed

\* The step belongs to an explicit disconnect: the disconnect call resets
\* the client, or task t reads the end of the stream while a disconnect that
\* has closed the socket is waiting for the close.
ExplicitDisconnect(t) ==
    \/ frame'[t].op = "disconnect" /\ frame[t].out = NoOutcome /\ frame'[t].out # NoOutcome
    \/ /\ frame[t].line # LineEmpty /\ frame'[t].line = LineEmpty
       /\ \E u \in Task : pc[u] = "closing"

\* C14: a new client is unconnected; the connection becomes connected only
\* through a successful connect, and becomes unconnected only through an
\* I/O failure, a close by the peer, or an explicit disconnect.
C14_ConnectionStateMachine ==
    /\ ~connected
    /\ [][/\ (~connected /\ connected') => \E t \in Task : ConnectSucceeds(t)
          /\ (connected /\ ~connected')
                => \E t \in Task : IOFailure(t) \/ PeerClose(t) \/ ExplicitDisconnect(t)]_vars

\* The sockets the client has open.
OpenSockets == {s \in SockId : socks[s].state = "open"}

\* C15: at every moment the client has at most one open socket: a reconnect
\* replaces the previous connection and no earlier socket stays open beside
\* the new one.
C15_OneOpenSocket ==
    Cardinality(OpenSockets) <= 1

\* C16: the request ids of a client are 1, 2, 3, ... in allocation order.
\* The counter starts at 0, every allocation takes the counter plus one and
\* leaves it there, nothing else moves the counter, and no two calls in
\* progress carry the same id, whatever the interleaving and whatever
\* happens to the connection.
C16_RequestIds ==
    /\ _request_id = 0
    /\ [][/\ \A t \in Task :
                (frame'[t].request_id # frame[t].request_id /\ frame'[t].op # "none")
                    => /\ frame'[t].request_id = _request_id + 1
                       /\ _request_id' = _request_id + 1
          /\ _request_id' # _request_id
                => \E t \in Task : frame[t].request_id = 0 /\ frame'[t].request_id = _request_id'
          /\ \A t, u \in Task :
                (t # u /\ frame'[t].request_id # 0) => frame'[t].request_id # frame'[u].request_id]_vars

\* Two calls that both connected are in progress with the ids 1 and 2, the
\* second on the socket that replaced the first call's.
C16_Witness ==
    \E t, u \in Task : /\ frame[t].request_id = 1 /\ frame[u].request_id = 2
                       /\ frame[t].attempts = 1 /\ frame[u].attempts = 1
                       /\ pc[t] = "reading" /\ pc[u] = "waiting" /\ nsock = 2

\* C17: for every execute call the timeout passed to request is the script
\* timeout sent in the exec params plus the 30 s buffer (35 s for 5000 ms),
\* and 120 s + 30 s = 150 s when no timeout_ms is given.
C17_SocketTimeoutIsScriptPlusBuffer ==
    \A t \in Task :
        frame[t].via = "execute"
            => /\ frame[t].params_ms.given
                    => frame[t].passed = (frame[t].params_ms.ms \div 1000) + 30
               /\ frame[t].params_ms = GivenMs(5000) => frame[t].passed = 35
               /\ ~frame[t].params_ms.given => frame[t].passed = 150

\* A ping call has made its result.
PingEnded(t) == frame[t].via = "ping" /\ frame[t].ret # NoRet

\* C18: ping never raises; when its request failed in any way, or the
\* result is no mapping or has no pong or a false one, ping returns false.
C18_PingNeverRaises ==
    \A t \in Task :
        PingEnded(t)
            => /\ frame[t].ret.exc = "none"
               /\ (\/ frame[t].out.exc # "none"
                   \/ ~IsMapping(frame[t].out.result)
                   \/ GetPong(frame[t].out.result) \in {"None", "False"})
                     => ~frame[t].ret.value

\* The request of a ping returned the array [1] as result: get raised inside
\* ping, and ping has returned false.
C18_Witness ==
    \E t \in Task : /\ PingEnded(t) /\ frame[t].out.exc = "none" /\ frame[t].out.result = "list"
                    /\ frame[t].ret = [exc |-> "none", value |-> FALSE]

\* C19 as claimed: ping returns true exactly when its request succeeded and
\* the result is a mapping whose pong field is truthy.
C19_TrueIffPongTruthy ==
    \A t \in Task :
        PingEnded(t)
            => (frame[t].ret.value
                  <=> /\ frame[t].out.exc = "none"
                      /\ IsMapping(frame[t].out.result)
                      /\ GetPong(frame[t].out.result) \in {"True", "1"})

\* C19, amended: ping returns true exactly when its request succeeded and
\* the result is a mapping whose pong field is the boolean true; a pong that
\* is only truthy, such as 1, gives false like every other case.
C19_TrueIffPongIsTrue ==
    \A t \in Task :
        PingEnded(t)
            => /\ frame[t].ret.exc = "none"
               /\ (frame[t].ret.value
                     <=> /\ frame[t].out.exc = "none"
                         /\ IsMapping(frame[t].out.result)
                         /\ GetPong(frame[t].out.result) = "True")

\* The listener answered a ping with {"pong": 1} and ping has returned
\* false.
C19_Witness ==
    \E t \in Task : /\ PingEnded(t) /\ frame[t].out.exc = "none"
                    /\ frame[t].out.result = "pong_one" /\ ~frame[t].ret.value

\* C20: every request call eventually returns or raises.
C20_RequestEnds ==
    \A t \in Task : (IsRequest(t) /\ pc[t] # "done") ~> (pc[t] = "done")

\* Instances constructed by get_connection.
ThroughGetConnection == {i \in DOMAIN instances : instances[i].by = "get_connection"}

\* C21: get_connection returns the same client instance on every call in
\* a process: once _connection is set it never changes, every call that
\* returns hands back that instance, and at most one instance is ever
\* constructed through it.
C21_Singleton ==
    /\ [](Cardinality(ThroughGetConnection) <= 1)
    /\ [][/\ _connection # None => _connection' = _connection
          /\ (last'.fn = "get_connection" /\ last'.exc = "none") =>
                /\ last'.value = _connection'
                /\ last'.value \in ThroughGetConnection'
                /\ _connection # None => last'.value = _connection]_vars

\* get_connection has returned the instance it had already constructed,
\* with another client constructed in between.
C21_Witness ==
    /\ last.fn = "get_connection" /\ last.exc = "none"
    /\ Len(instances) >= 2
    /\ last.value = 1 /\ instances[2].by = "caller"

\* C22: a client's port is the explicit constructor argument when one is
\* given, otherwise the value of the environment override when it is set
\* (an integer text), otherwise 9500; the host defaults to 127.0.0.1.
C22_PortResolution ==
    (last.fn = "ReaperConnection" /\ (last.args[2].given \/ ~environ.set \/ ParsesAsInt(environ.text))) =>
        /\ last.exc = "none"
        /\ instances[last.value].port =
              IF last.args[2].given THEN last.args[2].value
              ELSE IF environ.set THEN IntOf(environ.text)
              ELSE 9500
        /\ ~last.args[1].given => instances[last.value].host = "127.0.0.1"

\* The logged runs of a code, and those recorded as failed.
RunsOf(code) == {i \in DOMAIN script_runs : script_runs[i].hash = hash_code(code)}
FailedRunsOf(code) == {i \in RunsOf(code) : script_runs[i].success = 0}
RecordsOf(code) == {r \in scripts : r.code = code}

\* C23: after any sequence of record_execution calls, every code that was
\* recorded has exactly one record, whose run_count is the number of
\* logged runs of that exact code and whose error_count is the number of
\* those recorded with success = false; a code never recorded has none.
C23_CountsMatchRuns ==
    \A code \in Codes :
        /\ Cardinality(RecordsOf(code)) = (IF RunsOf(code) = {} THEN 0 ELSE 1)
        /\ \A r \in RecordsOf(code) :
              /\ r.hash = hash_code(code)
              /\ r.run_count = Cardinality(RunsOf(code))
              /\ r.error_count = Cardinality(FailedRunsOf(code))

\* One code recorded twice, once failing, and the code that differs by a
\* space recorded once under its own record.
C23_Witness ==
    /\ \E r \in scripts : r.code = "return 1" /\ r.run_count = 2 /\ r.error_count = 1
    /\ \E r \in scripts : r.code = "return 1 " /\ r.run_count = 1
    /\ Cardinality(scripts) = 2

\* C24: get_history(limit), for a limit that is a count, returns at most
\* limit runs, most recent first: the runs in the reverse of the order of
\* their record_execution calls.
C24_HistoryNewestFirst ==
    (last.fn = "get_history" /\ last.args[1] >= 0) =>
        /\ Len(last.value) <= last.args[1]
        /\ \A i \in DOMAIN last.value : last.value[i].id = Len(script_runs) - i + 1

\* C25: resolve_track_ref with an integer reference n returns n - 1 when
\* 1 <= n <= the number of tracks, and raises ValueError (out of range)
\* for every other integer.
C25_IntegerReference ==
    (last.fn = "resolve_track_ref" /\ last.exc # "pending" /\ last.args[1].type = "int") =>
        LET n == last.args[1].int
        IN  IF 1 <= n /\ n <= Len(last.args[2])
              THEN last.exc = "none" /\ last.value.value = n - 1
              ELSE last.exc = "ValueError" /\ last.value.text = "out of range"

\* C26: run_lua forwards its timeout_ms to the client's execute: when the
\* call has ended it has returned to its caller, either after exactly one
\* exec request carrying that script timeout was sent, or with the
\* "Connection error: ..." string of a communication failure.
C26_RunLuaForwardsTimeout ==
    \A t \in Task :
        (frame[t].via = "run_lua" /\ pc[t] = "done") =>
            /\ frame[t].out.exc \in {"none", "ConnectionError"}
            /\ frame[t].out.exc = "none" =>
                  /\ frame[t].writes = 1 /\ frame[t].method = "exec"
                  /\ frame[t].params_ms.given

\* C27: within one request call the read uses the connection the write
\* used: a call that is reading, or has read, reads from the socket it
\* wrote its request to, whatever other tasks did while it was suspended.
C27_ReadsWhereItWrote ==
    \A t \in Task :
        (IsRequest(t) /\ frame[t].writes = 1 /\ frame[t].rsock # None)
            => frame[t].rsock = frame[t].wsock

\* C28: a request writes to the socket only while the connection is
\* marked connected: every step in which a call writes its request starts
\* in a state where the connected property is true.
C28_WritesOnlyWhileConnected ==
    [][\A t \in Task : (IsRequest(t) /\ frame'[t].writes = frame[t].writes + 1) => connected]_vars

\* A call that holds an id and has not written its request yet.
Unwritten(u) ==
    /\ IsRequest(u) /\ frame[u].request_id > 0 /\ frame[u].writes = 0
    /\ pc[u] \notin {"exit", "done"}

\* C29: the requests of one client are written to the wire in strictly
\* increasing id order: whenever a call writes its request, every other
\* call that holds an id and has not written yet holds a larger id (and
\* every id allocated later is larger still).
C29_WrittenInIdOrder ==
    [][\A t, u \in Task :
          (IsRequest(t) /\ frame'[t].writes = frame[t].writes + 1 /\ Unwritten(u) /\ u # t)
              => frame[u].request_id > frame[t].request_id]_vars

\* A call has just written its request while a concurrent caller, which
\* took the next id, waits for the gate.
C29_Witness ==
    \E t, u \in Task :
        /\ pc[t] = "drain" /\ frame[t].writes = 1
        /\ pc[u] = "waiting" /\ Unwritten(u)
        /\ frame[u].request_id = frame[t].request_id + 1
        /\ _lock.locked

\* The lazy connect of a request call fails in this step.
LazyConnectFails(t) ==
    /\ IsRequest(t) /\ pc[t] = "connecting" /\ frame'[t].raised \in ConnectErrors

\* C30: when the lazy connect of a request call fails, the call raises
\* the unreachable error at once: the step leaves the gate and the
\* request-id counter as they were, and the call has taken no id and
\* written nothing, so the id it would have used is still the next one.
C30_FailedLazyConnect ==
    [][\A t \in Task :
          LazyConnectFails(t) =>
              /\ pc'[t] = "done"
              /\ frame'[t].out.exc = "ConnectionError"
              /\ frame'[t].out.msg.text = "Cannot connect to REAPER"
              /\ _lock' = _lock /\ \A i \in DOMAIN _lock.waiters : _lock.waiters[i] # t
              /\ _request_id' = _request_id
              /\ frame'[t].request_id = 0 /\ frame'[t].writes = 0
              /\ \A s \in SockId : socks'[s].pending = socks[s].pending]_vars

\* A request's lazy connect has just failed while the only other request,
\* whose connect succeeded, waits for its response: that one holds the
\* id 1 and the counter stands at 1.
C30_Witness ==
    \E t, u \in Task :
        /\ Ended(t) /\ frame[t].raised \in ConnectErrors /\ frame[t].attempts = 1
        /\ frame[t].request_id = 0 /\ frame[t].writes = 0
        /\ IsRequest(u) /\ pc[u] = "reading" /\ frame[u].request_id = 1 /\ _request_id = 1

====
